---------------------------- MODULE Spec2Model ----------------------------
(***************************************************************************)
(* A model of src/index.py: the AcidDissociationCalculator class and the   *)
(* module-level example driver.                                            *)
(*                                                                         *)
(* Python floats and numpy float64 values are modelled as binary floating  *)
(* point numbers with a Prec-bit significand, exponents in EMin..EMax,     *)
(* gradual underflow, round-to-nearest-even, signed infinities and NaN.    *)
(* A finite value is s * m * 2^e with s in {1,-1} and 0 <= m < 2^Prec.     *)
(* The arithmetic of the source (+, -, *, /, **, np.sqrt, np.log10) is     *)
(* computed on these values, each operation rounding its result, so that   *)
(* cancellation, overflow and underflow happen as they do in the program.  *)
(* The sign of zero is not kept: no operation of the source tells -0.0     *)
(* from 0.0.                                                               *)
(***************************************************************************)
EXTENDS Integers, Sequences, FiniteSets, TLC

\* Significand width in bits of the modelled floating-point format.
Prec == 4

\* Largest exponent e of a finite value m * 2^e.
EMax == 24

\* Number of callers that share the one calculator instance.
NCallers == 2

\* Largest binary exponent (in absolute value) of the arguments drawn.
MaxArgExp == 6

EMin == -EMax

\* Fraction bits of the fixed-point evaluation of log10 and 10**x.
FracBits == Prec + 8

\* Result bits kept from the logarithm's fraction.
LogBits == Prec + 4

Max(a, b) == IF a >= b THEN a ELSE b

Min(a, b) == IF a <= b THEN a ELSE b

Abs(a) == IF a < 0 THEN -a ELSE a

RECURSIVE BitLen(_)
BitLen(n) == IF n = 0 THEN 0 ELSE 1 + BitLen(n \div 2)

\* Integer square root: the largest r with r*r <= n.
RECURSIVE ISqrtBits(_, _, _)
ISqrtBits(n, r, bit) ==
  IF bit = 0 THEN r
  ELSE IF (r + bit) * (r + bit) <= n
       THEN ISqrtBits(n, r + bit, bit \div 2)
       ELSE ISqrtBits(n, r, bit \div 2)

ISqrt(n) == ISqrtBits(n, 0, 2 ^ ((BitLen(n) + 1) \div 2))

----------------------------------------------------------------------------
\* Floating-point values.

Num(s, m, e) == [k |-> "num", s |-> s, m |-> m, e |-> e]

Inf(s) == [k |-> "inf", s |-> s, m |-> 0, e |-> 0]

NaN == [k |-> "nan", s |-> 1, m |-> 0, e |-> 0]

Zero == Num(1, 0, 0)

IsNum(x) == x.k = "num"

IsNaN(x) == x.k = "nan"

IsInf(x) == x.k = "inf"

IsZero(x) == x.k = "num" /\ x.m = 0

Pack(s, m, e) ==
  IF m = 0 THEN Zero
  ELSE IF e > EMax THEN Inf(s)
  ELSE Num(s, m, e)

\* The float nearest to s * (n + d) * 2^e, where 0 < d < 1 when sticky and
\* d = 0 otherwise; ties go to the even significand.
Round(s, n, e, sticky) ==
  LET b  == BitLen(n)
      sh == Max(b - Prec, EMin - e)
  IN IF n = 0 THEN Zero
     ELSE IF sh <= 0
          THEN LET l == Min(Prec - b, e - EMin) IN Pack(s, n * 2 ^ l, e - l)
     ELSE IF sh >= b + 1 THEN Zero
     ELSE LET q    == n \div 2 ^ sh
              r    == n % 2 ^ sh
              half == 2 ^ (sh - 1)
              up   == r > half \/ (r = half /\ (sticky \/ q % 2 = 1))
              q1   == IF up THEN q + 1 ELSE q
          IN IF q1 = 2 ^ Prec
             THEN Pack(s, 2 ^ (Prec - 1), e + sh + 1)
             ELSE Pack(s, q1, e + sh)

\* A finite nonzero value with its significand shifted up to Prec bits
\* (the exponent may then lie below EMin; used inside an operation only).
Normal(x) ==
  LET l == Prec - BitLen(x.m) IN [s |-> x.s, m |-> x.m * 2 ^ l, e |-> x.e - l]

\* The float a decimal literal num / den denotes (num, den > 0).
RECURSIVE LitShift(_, _, _)
LitShift(num, den, k) ==
  IF num * 2 ^ k >= den * 2 ^ (Prec + 1) THEN k ELSE LitShift(num, den, k + 1)

Lit(num, den) ==
  LET k == LitShift(num, den, 0)
      q == (num * 2 ^ k) \div den
  IN Round(1, q, -k, (num * 2 ^ k) % den # 0)

FNeg(x) == IF IsNaN(x) \/ IsZero(x) THEN x ELSE [x EXCEPT !.s = -x.s]

\* Comparison x < y of two floats; FALSE when either is NaN.
FLess(x, y) ==
  IF IsNaN(x) \/ IsNaN(y) THEN FALSE
  ELSE IF IsInf(x) THEN x.s = -1 /\ ~(IsInf(y) /\ y.s = -1)
  ELSE IF IsInf(y) THEN y.s = 1
  ELSE LET lo == Min(x.e, y.e)
           dx == x.e - lo
           dy == y.e - lo
       IN IF x.m = 0 \/ y.m = 0 THEN x.s * x.m < y.s * y.m
          ELSE IF x.s # y.s THEN x.s < y.s
          ELSE IF dx > Prec THEN x.s = -1
          ELSE IF dy > Prec THEN x.s = 1
          ELSE x.s * x.m * 2 ^ dx < y.s * y.m * 2 ^ dy

FMul(x, y) ==
  IF IsNaN(x) \/ IsNaN(y) THEN NaN
  ELSE IF IsInf(x) \/ IsInf(y)
       THEN IF IsZero(x) \/ IsZero(y) THEN NaN ELSE Inf(x.s * y.s)
  ELSE Round(x.s * y.s, x.m * y.m, x.e + y.e, FALSE)

FAdd(x, y) ==
  IF IsNaN(x) \/ IsNaN(y) THEN NaN
  ELSE IF IsInf(x) THEN (IF IsInf(y) /\ y.s # x.s THEN NaN ELSE x)
  ELSE IF IsInf(y) THEN y
  ELSE IF IsZero(x) THEN y
  ELSE IF IsZero(y) THEN x
  ELSE LET big   == IF x.e >= y.e THEN x ELSE y
           small == IF x.e >= y.e THEN y ELSE x
           gap   == big.e - small.e
       IN IF gap <= Prec + 2
          THEN LET n == big.s * big.m * 2 ^ gap + small.s * small.m
               IN Round(IF n < 0 THEN -1 ELSE 1, Abs(n), small.e, FALSE)
          ELSE IF big.s = small.s
               THEN Round(big.s, big.m * 4, big.e - 2, TRUE)
               ELSE Round(big.s, big.m * 4 - 1, big.e - 2, TRUE)

FSub(x, y) == FAdd(x, FNeg(y))

\* The quotient of two finite values, y nonzero.
DivFinite(x, y) ==
  IF IsZero(x) THEN Zero
  ELSE LET a == Normal(x)
           n == a.m * 2 ^ (Prec + 2)
       IN Round(x.s * y.s, n \div y.m, a.e - y.e - (Prec + 2), n % y.m # 0)

\* numpy float64 division: no exception, x/0 is inf or nan.
FDiv(x, y) ==
  IF IsNaN(x) \/ IsNaN(y) THEN NaN
  ELSE IF IsInf(x) THEN (IF IsInf(y) THEN NaN ELSE Inf(x.s * y.s))
  ELSE IF IsInf(y) THEN Zero
  ELSE IF IsZero(y) THEN (IF IsZero(x) THEN NaN ELSE Inf(x.s))
  ELSE DivFinite(x, y)

\* np.sqrt: NaN for a negative argument (numpy warns, it does not raise).
FSqrt(x) ==
  IF IsNaN(x) THEN NaN
  ELSE IF IsZero(x) THEN Zero
  ELSE IF x.s = -1 THEN NaN
  ELSE IF IsInf(x) THEN x
  ELSE LET a  == Normal(x)
           k  == IF (a.e - (Prec + 4)) % 2 = 0 THEN Prec + 4 ELSE Prec + 5
           n  == a.m * 2 ^ k
           r  == ISqrt(n)
       IN Round(1, r, (a.e - k) \div 2, r * r # n)


\* The first k bits of the fraction of log2(y / 2^FracBits), for a fixed-point
\* y in [2^FracBits, 2^(FracBits+1)), by repeated squaring.
RECURSIVE LogFrac(_, _, _)
LogFrac(y, k, acc) ==
  IF k = 0 THEN acc
  ELSE LET sq == (y * y) \div 2 ^ FracBits
       IN IF sq >= 2 ^ (FracBits + 1)
          THEN LogFrac(sq \div 2, k - 1, 2 * acc + 1)
          ELSE LogFrac(sq, k - 1, 2 * acc)

\* np.log10: -inf at 0 and NaN below 0 (numpy warns, it does not raise).
\* log10(x) = log2(x) * log10(2), with log10(2) taken as 1233 / 4096.
FLog10(x) ==
  IF IsNaN(x) THEN NaN
  ELSE IF IsZero(x) THEN Inf(-1)
  ELSE IF x.s = -1 THEN NaN
  ELSE IF IsInf(x) THEN x
  ELSE LET a  == Normal(x)
           fr == LogFrac(a.m * 2 ^ (FracBits - Prec + 1), LogBits, 0)
           l2 == (a.e + Prec - 1) * 2 ^ LogBits + fr
       IN Round(IF l2 < 0 THEN -1 ELSE 1, Abs(l2) * 1233, -(LogBits + 12), FALSE)

\* 2^(f / 2^FracBits) in fixed point, for 0 <= f < 2^FracBits: the product of
\* the roots 2^(1/2), 2^(1/4), ... selected by the bits of f.
RECURSIVE PowFrac(_, _, _, _)
PowFrac(f, j, root, acc) ==
  IF j > FracBits THEN acc
  ELSE PowFrac(f, j + 1, ISqrt(root * 2 ^ FracBits),
               IF (f \div 2 ^ (FracBits - j)) % 2 = 1
               THEN (acc * root) \div 2 ^ FracBits ELSE acc)

\* 10 ** x on finite nonzero x, unbounded above: 10^x = 2^(x * log2(10)), with
\* log2(10) taken as 27213 / 8192.  Inf(1) when the result exceeds the
\* format's range.
Pow10Finite(x) ==
  LET a == Normal(x)
  IN IF a.e + Prec - 1 >= BitLen(EMax)
     THEN (IF x.s = 1 THEN Inf(1) ELSE Zero)
     ELSE LET sh == a.e + FracBits - 13
              t  == IF sh >= 0 THEN a.m * 27213 * 2 ^ sh
                    ELSE IF -sh > 30 THEN 0
                    ELSE (a.m * 27213) \div 2 ^ (-sh)
              ts == x.s * t
              i  == ts \div 2 ^ FracBits
              f  == ts % 2 ^ FracBits
              mt == PowFrac(f, 1, ISqrt(2 * 2 ^ (2 * FracBits)), 2 ^ FracBits)
          IN Round(1, mt, i - FracBits, FALSE)

\* 10 ** x for a numpy float64 x: overflow gives inf (numpy warns).
FPow10(x) ==
  IF IsNaN(x) THEN NaN
  ELSE IF IsInf(x) THEN (IF x.s = 1 THEN x ELSE Zero)
  ELSE IF IsZero(x) THEN Lit(1, 1)
  ELSE Pow10Finite(x)

----------------------------------------------------------------------------
\* Python operations that can raise.

NoValue == [k |-> "none", s |-> 1, m |-> 0, e |-> 0]

Val(x) == [err |-> "none", v |-> x]

Err(name) == [err |-> name, v |-> NoValue]

\* x / y on two Python floats: ZeroDivisionError when y is zero.
PyDiv(x, y) == IF IsZero(y) THEN Err("ZeroDivisionError") ELSE Val(FDiv(x, y))

\* x ** 2 on a Python float: OverflowError when a finite x overflows.
PyPow2(x) ==
  LET r == FMul(x, x)
  IN IF IsNum(x) /\ IsInf(r) THEN Err("OverflowError") ELSE Val(r)

\* 10 ** x on a Python float: OverflowError when a finite x overflows.
PyPow10(x) ==
  LET r == FPow10(x)
  IN IF IsNum(x) /\ IsInf(r) THEN Err("OverflowError") ELSE Val(r)

\* [H] = x: unpacking into a one-name target list iterates x, and a float is
\* not iterable ("cannot unpack non-iterable float object").
Unpack1(x) == Err("TypeError")

----------------------------------------------------------------------------
\* class AcidDissociationCalculator.  An instance is its attribute dictionary,
\* a set of <<name, value>> pairs; a method takes self and its arguments and
\* yields [err, v, self]: the exception raised or "none", the value returned,
\* and the instance's attributes after the call.

\* __init__: pass.
NewCalculator == {}

Return(self, x) == [err |-> "none", v |-> x, self |-> self]

Raise(self, name) == [err |-> name, v |-> NoValue, self |-> self]

ka_from_ph(self, pH, C, approximation) ==
  LET p == PyPow10(FNeg(pH))
  IN IF p.err # "none" THEN Raise(self, p.err)
     ELSE LET u == Unpack1(p.v)
          IN IF u.err # "none" THEN Raise(self, u.err)
             ELSE LET H  == u.v
                      q  == IF approximation THEN PyDiv(H, C) ELSE Val(Zero)
                      h2 == PyPow2(H)
                  IN IF q.err # "none" THEN Raise(self, q.err)
                     ELSE IF h2.err # "none" THEN Raise(self, h2.err)
                     ELSE IF approximation /\ FLess(q.v, Lit(5, 100))
                          THEN LET Ka == PyDiv(h2.v, C)
                               IN IF Ka.err # "none" THEN Raise(self, Ka.err)
                                  ELSE Return(self, Ka.v)
                          ELSE LET Ka == PyDiv(h2.v, FSub(C, H))
                               IN IF Ka.err # "none" THEN Raise(self, Ka.err)
                                  ELSE Return(self, Ka.v)

\* ph_from_ka with its result memoised on the instance, whatever the arguments.
ph_from_ka_memo(self, Ka, C) ==
  IF \E a \in self : a[1] = "pH"
  THEN Return(self, (CHOOSE a \in self : a[1] = "pH")[2])
  ELSE LET k2 == PyPow2(Ka)
       IN IF k2.err # "none" THEN Raise(self, k2.err)
          ELSE LET discriminant == FAdd(k2.v, FMul(FMul(Lit(4, 1), Ka), C))
                   H  == FDiv(FAdd(FNeg(Ka), FSqrt(discriminant)), Lit(2, 1))
                   pH == FNeg(FLog10(H))
               IN Return(self \cup {<<"pH", pH>>}, pH)

ph_from_ka(self, Ka, C) ==
  LET k2 == PyPow2(Ka)
  IN IF k2.err # "none" THEN Raise(self, k2.err)
     ELSE LET discriminant == FAdd(k2.v, FMul(FMul(Lit(4, 1), Ka), C))
              H  == FDiv(FAdd(FNeg(Ka), FSqrt(discriminant)), Lit(2, 1))
              pH == FNeg(FLog10(H))
          IN Return(self, pH)

pka_from_ka(self, Ka) == Return(self, FNeg(FLog10(Ka)))

ka_from_pka(self, pKa) ==
  LET p == PyPow10(FNeg(pKa))
  IN IF p.err # "none" THEN Raise(self, p.err) ELSE Return(self, p.v)

degree_of_dissociation(self, Ka, C) ==
  LET r == ph_from_ka(self, Ka, C)
  IN IF r.err # "none" THEN r
     ELSE LET pH == r.v
              H  == FPow10(FNeg(pH))
          IN Return(r.self, FDiv(H, C))

buffer_ph(self, pKa, acid_conc, salt_conc) ==
  LET q == PyDiv(salt_conc, acid_conc)
  IN IF q.err # "none" THEN Raise(self, q.err)
     ELSE LET pH == FAdd(pKa, FLog10(q.v))
          IN Return(self, pH)

----------------------------------------------------------------------------
\* Format specifications of the driver's f-strings.  The text of a number is
\* [s, whole, cents, exp, word]: sign, the digits before and the two digits
\* after the decimal point, and the decimal exponent (0 for ".2f"); inf and
\* nan print as words.

RoundHalfEven(n, d) ==
  LET q == n \div d
      r == n % d
  IN IF 2 * r > d \/ (2 * r = d /\ q % 2 = 1) THEN q + 1 ELSE q

\* |x| * 10^k for a finite x, rounded to an integer (half to even) or cut.
Scaled(x, k, cut) ==
  LET n  == IF k >= 0 THEN x.m * 5 ^ k ELSE x.m
      d  == IF k >= 0 THEN 1 ELSE 5 ^ (-k)
      e2 == x.e + k
      nn == IF e2 >= 0 THEN n * 2 ^ e2 ELSE n
      dd == IF e2 >= 0 THEN d ELSE d * 2 ^ (-e2)
  IN IF cut THEN nn \div dd ELSE RoundHalfEven(nn, dd)

Text(s, whole, cents, exp, word) ==
  [s |-> s, whole |-> whole, cents |-> cents, exp |-> exp, word |-> word]

\* format(x, ".2f")
FormatF2(x) ==
  IF ~IsNum(x) THEN Text(x.s, 0, 0, 0, x.k)
  ELSE IF x.e >= 0 THEN Text(x.s, x.m * 2 ^ x.e, 0, 0, "f")
  ELSE LET d  == 2 ^ (-x.e)
           c  == RoundHalfEven((x.m % d) * 100, d)
       IN IF c = 100 THEN Text(x.s, x.m \div d + 1, 0, 0, "f")
          ELSE Text(x.s, x.m \div d, c, 0, "f")

\* format(x, ".2e")
FormatE2(x) ==
  IF ~IsNum(x) THEN Text(x.s, 0, 0, 0, x.k)
  ELSE IF IsZero(x) THEN Text(1, 0, 0, 0, "e")
  ELSE LET b  == x.e + BitLen(x.m)
           x0 == ((b - 1) * 1233) \div 4096
           X  == IF Scaled(x, 2 - (x0 + 1), TRUE) >= 100 THEN x0 + 1 ELSE x0
           d  == Scaled(x, 2 - X, FALSE)
       IN IF d = 1000 THEN Text(x.s, 1, 0, X + 1, "e")
          ELSE Text(x.s, d \div 100, d % 100, X, "e")

----------------------------------------------------------------------------
\* The state: the module-level driver (lines 88-102) and, beside it, callers
\* of the class that share one instance.

VARIABLES
  calc,       \* the driver's instance (line 89)
  ka_value,   \* module global, line 92
  pH_value,   \* module global, line 97
  buffer_pH,  \* module global, line 101
  pc,         \* the line the driver executes next; Done after line 102
  exc,        \* the uncaught exception that ended the driver, or "none"
  stdout,     \* the lines printed so far
  shared,     \* the instance the callers share
  call,       \* the callers' current call: caller, method, arguments, and
              \* its outcome once it has returned
  prev        \* history: the caller of the call before the current one, or 0

vars ==
  <<calc, ka_value, pH_value, buffer_pH, pc, exc, stdout, shared, call, prev>>

Callers == 1 .. NCallers

\* The arguments callers pass: zero, negative and positive floats whose
\* magnitudes span 2^-MaxArgExp .. 2^MaxArgExp.
ArgExps == {-MaxArgExp, 0, MaxArgExp}

Positives ==
  {Num(1, 2 ^ (Prec - 1), e - Prec + 1) : e \in ArgExps}
    \cup {Num(1, 2 ^ (Prec - 1) + 3, -Prec + 1)}

Negatives == {Num(-1, 2 ^ (Prec - 1), e - Prec + 1) : e \in {0, MaxArgExp}}

Floats == Positives \cup Negatives \cup {Zero}

PKas == {Zero, Lit(476, 100)}

Done == 103

Line(label, text) == [label |-> label, text |-> text]

\* The driver's state: globals, instance, output, the exception raised by
\* the statement just executed, and the line to execute next.
DriverState ==
  [err |-> "none", calc |-> calc, ka_value |-> ka_value,
   pH_value |-> pH_value, buffer_pH |-> buffer_pH, stdout |-> stdout,
   next |-> pc]

\* An uncaught exception in the call result r ends the driver at its line;
\* otherwise the statement's effect done applies.
Stmt(st, r, done) ==
  IF r.err # "none" THEN [st EXCEPT !.err = r.err, !.calc = r.self] ELSE done

PrintLine(st, label, text, next) ==
  [st EXCEPT !.stdout = Append(st.stdout, Line(label, text)), !.next = next]

Line92(st, r) ==
  Stmt(st, r, [st EXCEPT !.calc = r.self, !.ka_value = r.v, !.next = 93])

Line94(st, r) ==
  Stmt(st, r, PrintLine([st EXCEPT !.calc = r.self], "pKa: ", FormatF2(r.v), 97))

Line97(st, r) ==
  Stmt(st, r, [st EXCEPT !.calc = r.self, !.pH_value = r.v, !.next = 98])

Line101(st, r) ==
  Stmt(st, r, [st EXCEPT !.calc = r.self, !.buffer_pH = r.v, !.next = 102])

\* One statement of the driver, executed in state st.
Exec(st) ==
  CASE st.next = 92 ->
         Line92(st, ka_from_ph(st.calc, Lit(289, 100), Lit(100, 1000), TRUE))
    [] st.next = 93 ->
         PrintLine(st, "Ka from pH: ", FormatE2(st.ka_value), 94)
    [] st.next = 94 ->
         Line94(st, pka_from_ka(st.calc, st.ka_value))
    [] st.next = 97 ->
         Line97(st, ph_from_ka(st.calc, Lit(18, 1000000), Lit(10, 100)))
    [] st.next = 98 ->
         PrintLine(st, "pH from Ka: ", FormatF2(st.pH_value), 101)
    [] st.next = 101 ->
         Line101(st, buffer_ph(st.calc, Lit(476, 100), Lit(10, 100), Lit(10, 100)))
    [] st.next = 102 ->
         PrintLine(st, "Buffer pH: ", FormatF2(st.buffer_pH), Done)

Init ==
  /\ calc = NewCalculator
  /\ ka_value = NoValue
  /\ pH_value = NoValue
  /\ buffer_pH = NoValue
  /\ pc = 92
  /\ exc = "none"
  /\ stdout = <<>>
  /\ shared = NewCalculator
  /\ call = [caller |-> 0, op |-> "none", args |-> <<>>, approximation |-> TRUE,
             state |-> "none", err |-> "none", v |-> NoValue]
  /\ prev = 0

DriverTo(st) ==
  /\ calc' = st.calc
  /\ ka_value' = st.ka_value
  /\ pH_value' = st.pH_value
  /\ buffer_pH' = st.buffer_pH
  /\ stdout' = st.stdout
  /\ exc' = st.err
  /\ pc' = st.next

DriverStep ==
  /\ pc # Done
  /\ exc = "none"
  /\ DriverTo(Exec(DriverState))
  /\ UNCHANGED <<shared, call, prev>>

Methods ==
  {"ka_from_ph", "ph_from_ka", "pka_from_ka", "ka_from_pka",
   "degree_of_dissociation", "buffer_ph"}

\* The argument lists a caller may pass to a method.
ArgsOf(op) ==
  CASE op = "ka_from_ph" -> {<<pH, C>> : pH \in Floats, C \in Floats}
    [] op = "ph_from_ka" -> {<<Ka, C>> : Ka \in Floats, C \in Floats}
    [] op = "pka_from_ka" -> {<<Ka>> : Ka \in Floats}
    [] op = "ka_from_pka" -> {<<pKa>> : pKa \in Floats}
    [] op = "degree_of_dissociation" -> {<<Ka, C>> : Ka \in Floats, C \in Floats}
    [] op = "buffer_ph" ->
         {<<pKa, acid_conc, salt_conc>> :
            pKa \in PKas, acid_conc \in Floats, salt_conc \in Floats}

\* The round trip ka_from_ph(ph_from_ka(Ka, C), C, ...): the pH that
\* ph_from_ka has just returned, passed on with the same C.
RoundTripArgs(op) ==
  IF op = "ka_from_ph" /\ call.state = "returned" /\ call.op = "ph_from_ka"
     /\ call.err = "none"
  THEN {<<call.v, call.args[2]>>} ELSE {}

\* A caller calls a method of the shared instance; approximation is passed
\* to ka_from_ph only (its default is TRUE).  Calls by different callers
\* follow one another in any order.  A method body works on its arguments
\* and locals only and reaches the instance through self alone, so a call
\* is one step from the instance as it finds it to the instance as it
\* leaves it.
Call ==
  /\ call.state # "pending"
  /\ prev' = call.caller
  /\ \E c \in Callers, op \in Methods :
       \E args \in ArgsOf(op) \cup RoundTripArgs(op), approximation \in BOOLEAN :
         /\ op # "ka_from_ph" => approximation
         /\ call' = [caller |-> c, op |-> op, args |-> args,
                     approximation |-> approximation,
                     state |-> "pending", err |-> "none", v |-> NoValue]
  /\ UNCHANGED <<calc, ka_value, pH_value, buffer_pH, pc, exc, stdout, shared>>

Pending(op) == call.state = "pending" /\ call.op = op

\* The pending call runs to its return or its exception.
Completed(r) ==
  /\ shared' = r.self
  /\ call' = [call EXCEPT !.state = "returned", !.err = r.err, !.v = r.v]
  /\ UNCHANGED <<calc, ka_value, pH_value, buffer_pH, pc, exc, stdout, prev>>

KaFromPh ==
  /\ Pending("ka_from_ph")
  /\ Completed(ka_from_ph(shared, call.args[1], call.args[2], call.approximation))

PhFromKa ==
  /\ Pending("ph_from_ka")
  /\ Completed(ph_from_ka(shared, call.args[1], call.args[2]))

PkaFromKa ==
  /\ Pending("pka_from_ka")
  /\ Completed(pka_from_ka(shared, call.args[1]))

KaFromPka ==
  /\ Pending("ka_from_pka")
  /\ Completed(ka_from_pka(shared, call.args[1]))

DegreeOfDissociation ==
  /\ Pending("degree_of_dissociation")
  /\ Completed(degree_of_dissociation(shared, call.args[1], call.args[2]))

BufferPh ==
  /\ Pending("buffer_ph")
  /\ Completed(buffer_ph(shared, call.args[1], call.args[2], call.args[3]))

Next ==
  \/ DriverStep
  \/ Call
  \/ KaFromPh
  \/ PhFromKa
  \/ PkaFromKa
  \/ KaFromPka
  \/ DegreeOfDissociation
  \/ BufferPh

Spec == Init /\ [][Next]_vars

----------------------------------------------------------------------------
\* Properties.

Returned(op) == call.state = "returned" /\ call.op = op

IsPositive(x) == FLess(Zero, x)

NonPositive(x) == IsNum(x) /\ ~IsPositive(x)

FAbs(x) == IF IsNaN(x) THEN x ELSE [x EXCEPT !.s = 1]

\* x equals y up to a relative tolerance of 2^-(Prec-2).
Close(x, y) ==
  /\ IsNum(x)
  /\ IsNum(y)
  /\ ~FLess(FMul(FAbs(y), Num(1, 2 ^ (Prec - 1), 3 - 2 * Prec)), FAbs(FSub(x, y)))

\* The hydrogen-ion concentration 10^(-pH) of a call's pH argument.
HOf(pH) == FPow10(FNeg(pH))

\* The outcome of a method called first on a fresh instance.
Fresh(op, args, approximation) ==
  CASE op = "ka_from_ph" -> ka_from_ph(NewCalculator, args[1], args[2], approximation)
    [] op = "ph_from_ka" -> ph_from_ka(NewCalculator, args[1], args[2])
    [] op = "pka_from_ka" -> pka_from_ka(NewCalculator, args[1])
    [] op = "ka_from_pka" -> ka_from_pka(NewCalculator, args[1])
    [] op = "degree_of_dissociation" ->
         degree_of_dissociation(NewCalculator, args[1], args[2])
    [] op = "buffer_ph" -> buffer_ph(NewCalculator, args[1], args[2], args[3])

\* C1: for C > 0, ka_from_ph returns a number: H^2 / C when approximation
\* holds and H / C < 0.05 strictly, and H^2 / (C - H) in every other case
\* with H < C.
C1_KaFromPhReturnsKa ==
  Returned("ka_from_ph") /\ IsPositive(call.args[2]) =>
    LET C  == call.args[2]
        H  == HOf(call.args[1])
        ap == call.approximation /\ FLess(FDiv(H, C), Lit(5, 100))
    IN /\ call.err = "none"
       /\ ap => call.v = FDiv(FMul(H, H), C)
       /\ ~ap /\ FLess(H, C) => call.v = FDiv(FMul(H, H), FSub(C, H))

\* C2: ph_from_ka with Ka <= 0 or C <= 0 ends in an error and returns no pH.
C2_PhFromKaDomainError ==
  Returned("ph_from_ka")
    /\ (NonPositive(call.args[1]) \/ NonPositive(call.args[2]))
    => call.err # "none"

\* C3: buffer_ph with acid_conc <= 0 or salt_conc <= 0 ends in an error and
\* returns no value.
C3_BufferPhDomainError ==
  Returned("buffer_ph")
    /\ (NonPositive(call.args[2]) \/ NonPositive(call.args[3]))
    => call.err # "none"

\* C4: for Ka > 0 and C > 0, degree_of_dissociation returns alpha with
\* 0 < alpha < 1.
C4_DegreeBetween0And1 ==
  Returned("degree_of_dissociation")
    /\ IsPositive(call.args[1]) /\ IsPositive(call.args[2])
    => /\ call.err = "none"
       /\ FLess(Zero, call.v)
       /\ FLess(call.v, Lit(1, 1))

\* C5: for Ka > 0 and C > 0, ka_from_ph(ph_from_ka(Ka, C), C, FALSE)
\* completes and returns Ka up to tolerance.
C5_RoundTrip ==
  Returned("ka_from_ph") /\ ~call.approximation =>
    \A Ka \in Positives :
      IsPositive(call.args[2])
        /\ ph_from_ka(NewCalculator, Ka, call.args[2])
             = Return(NewCalculator, call.args[1])
        => call.err = "none" /\ Close(call.v, Ka)

\* C6: for fixed C > 0 and 0 < Ka1 < Ka2, ph_from_ka(Ka1, C) is strictly
\* greater than ph_from_ka(Ka2, C).
C6_PhDecreasesInKa ==
  Returned("ph_from_ka")
    /\ IsPositive(call.args[1]) /\ IsPositive(call.args[2])
    => \A Ka1 \in Positives :
         FLess(Ka1, call.args[1]) =>
           LET r1 == ph_from_ka(NewCalculator, Ka1, call.args[2])
           IN call.err = "none" /\ r1.err = "none" /\ FLess(call.v, r1.v)

\* C7: for C > 0 and H = 10^(-pH) >= C, ka_from_ph does not raise: it
\* returns a result that is non-finite or negative.
C7_NoRaiseWhenHAtLeastC ==
  Returned("ka_from_ph") /\ IsPositive(call.args[2])
    /\ IsNum(HOf(call.args[1])) /\ ~FLess(HOf(call.args[1]), call.args[2])
    => /\ call.err = "none"
       /\ ~IsNum(call.v) \/ FLess(call.v, Zero)

\* C8: once the driver is past line 92, ka_value is about 1.65e-3, and once
\* it is past line 94 the pKa printed is 2.78.
C8_Scenario1 ==
  /\ exc # "none" \/ pc > 92 =>
       exc = "none" /\ Close(ka_value, Lit(165, 100000))
  /\ pc > 94 => stdout[2] = Line("pKa: ", Text(1, 2, 78, 0, "f"))

DriverLabels == <<"Ka from pH: ", "pKa: ", "pH from Ka: ", "Buffer pH: ">>

\* C9: no error stops the driver, and its four lines are printed in order.
C9_DriverCompletes ==
  /\ exc = "none"
  /\ Len(stdout) <= 4
  /\ \A i \in 1 .. Len(stdout) : stdout[i].label = DriverLabels[i]
  /\ pc = Done => Len(stdout) = 4

\* C10: after any sequence of calls by any callers the instance holds no
\* changed state, every call's outcome is the outcome of the same call made
\* first on a fresh instance, and a call that fails returns no value.
C10_Pure ==
  /\ shared = NewCalculator
  /\ calc = NewCalculator
  /\ call.state = "returned" =>
       LET r == Fresh(call.op, call.args, call.approximation)
       IN /\ call.err = r.err
          /\ call.v = r.v
          /\ call.err # "none" => call.v = NoValue

\* A call has failed right after a call by another caller.
C10_Witness ==
  /\ call.state = "returned"
  /\ call.err # "none"
  /\ prev # 0
  /\ prev # call.caller

============================================================================
